---- MODULE Spec2Model ----
(***************************************************************************)
(* Model of utils.go: bufReader (a background drain goroutine filling a    *)
(* bytes.Buffer that a consumer reads) and writeBroadcaster (a list of     *)
(* sinks that every Write is replicated to).                               *)
(*                                                                         *)
(* bufReader is modelled one statement per step, because drain() and       *)
(* Read() touch r.buf and r.err outside r.l: the two goroutines interleave *)
(* between any two statements.  The two Buffer calls are split where they   *)
(* read the buffer's fields and where they write them.                     *)
(* writeBroadcaster has no goroutine of its own: each method is one step.  *)
(***************************************************************************)
EXTENDS Integers, Sequences, FiniteSets, TLC

\* ---------------------------------------------------------------- bounds
MaxBytes == 3   \* bytes the source produces in all
MaxChunk == 2   \* bytes one source read returns (the code's chunk is 1024)
MaxP     == 2   \* length of the consumer's buffer p
MaxAdds  == 3   \* AddWriter calls in one run
MaxData  == 1   \* length of the data of one Write
MaxWrites == 2  \* Write calls in a run that records what the sinks were handed
MaxTracked == 2 \* AddWriter calls in such a run

Errors == {"EOF", "ErrClosed"}      \* terminal errors of the source
Sinks  == {"A", "B"}                \* the io.WriteCloser values registered
Bytes  == {"x"}                     \* payload alphabet: the code never looks
                                    \* inside the data of a Write

VARIABLES
    \* --- the source and the drain goroutine
    produced,   \* bytes the source has returned with a nil error, in order
    dpc,        \* drain's position: the line of utils.go it executes next
    dchunk,     \* buf[0:n] of the last source read
    derr,       \* err of the last source read
    dm,         \* m, the index Buffer.Write copies to
    \* --- the bufReader object
    rerr,       \* r.err
    arr,        \* backing array of r.buf
    blen,       \* len(r.buf.buf)
    off,        \* r.buf.off
    lock,       \* holder of r.l
    \* --- the consumer
    cpc,        \* consumer's position
    plen,       \* len(p) of the Read in progress
    cempty,     \* what Buffer.Read saw when it tested for an empty buffer
    got,        \* concatenation of the bytes returned by Read so far
    lastRet,    \* (n, err) of the last Read that returned
    cWaited,    \* the Read in progress has entered wait.Wait()
    cStart,     \* what the Read in progress (or last) found when it began:
                \* "data" (bytes buffered), "term" (none, r.err set), "empty"
    cAfterErr,  \* that Read began after a Read had returned the terminal error
    cLate,      \* whether that Read began with bytes buffered and no
                \* r.buf.Write under way, and if so whether the Signal for
                \* the last Write was still to come: "no", "unsignalled",
                \* "signalled"
    cBuf,       \* the unread bytes of the buffer when that Read began
    zeroUsed,   \* some Read so far was given an empty p
    \* --- writeBroadcaster
    writers,    \* w.writers: list of elements [id, sink]
    nextId,     \* identity of the next list element
    lastOp,     \* last method called on the broadcaster
    lastSink,   \* writer given to the last AddWriter or RemoveWriter
    lastP,      \* data of the last Write
    attempts,   \* writer.Write calls made by the last Write, in order
    closes,     \* writer.Close calls made by the last Close, in order
    wret,       \* (n, err) returned by the last Write
    cret,       \* error returned by the last Close
    closedBefore, \* Close had been called before the last call
    failedIds,  \* elements that have failed a write
    failedSinks, \* sinks that have failed a write
    whist,      \* data of the Write calls so far, in call order
    since,      \* per element of the list: Len(whist) when it was added
    recv        \* per element of the list: the data written to it, in order

brVars == <<produced, dpc, dchunk, derr, dm, rerr, arr, blen, off, lock,
            cpc, plen, cempty, got, lastRet, cWaited, cStart,
            cAfterErr, cLate, cBuf, zeroUsed>>
wbVars == <<writers, nextId, lastOp, lastSink, lastP, attempts, closes, wret,
            cret, closedBefore, failedIds, failedSinks>>
histVars == <<whist, since, recv>>
vars == <<brVars, wbVars, histVars>>

Min(a, b) == IF a < b THEN a ELSE b

IsPrefix(s, t) == Len(s) <= Len(t) /\ SubSeq(t, 1, Len(s)) = s

\* ------------------------------------------------------------ bufReader

BufCap == MaxBytes  \* capacity of the backing array: never exhausted here

BufLen == blen - off    \* r.buf.Len()

InitBR ==
    /\ produced = <<>>
    /\ dpc = "d91"
    /\ dchunk = <<>>
    /\ derr = "nil"
    /\ dm = 0
    /\ rerr = "nil"
    /\ arr = [i \in 1..BufCap |-> 0]
    /\ blen = 0
    /\ off = 0
    /\ lock = "none"
    /\ cpc = "idle"
    /\ plen = 0
    /\ cempty = FALSE
    /\ got = <<>>
    /\ lastRet = [n |-> 0, err |-> "none"]
    /\ cWaited = FALSE
    /\ cStart = "empty"
    /\ cAfterErr = FALSE
    /\ cLate = "no"
    /\ cBuf = <<>>
    /\ zeroUsed = FALSE

Running == dpc # "panic"

drainVars == <<produced, dpc, dchunk, derr, dm>>
consVars == <<plen, cempty, got, lastRet, cWaited, cStart,
              cAfterErr, cLate, cBuf, zeroUsed>>

\* line 91: n, err := r.reader.Read(buf).  The k-th byte of the source is k.
SourceRead ==
    /\ Running /\ dpc = "d91"
    /\ UNCHANGED <<wbVars, histVars>>
    /\ \E n \in 0..MaxChunk, e \in {"nil"} \cup Errors :
        /\ Len(produced) + n <= MaxBytes
        /\ dchunk' = [i \in 1..n |-> Len(produced) + i]
        /\ derr' = e
        /\ produced' = IF e = "nil" THEN produced \o dchunk' ELSE produced
    /\ dpc' = "d92"
    /\ UNCHANGED <<dm, rerr, arr, blen, off, lock, cpc>>
    /\ UNCHANGED consVars

\* Lines 92-95 with the else dropped: r.err = err and then Buffer.grow(n)
\* for the bytes that came with the error.
DrainSetErr_KeepBytes ==
    /\ Running /\ dpc = "d92" /\ derr # "nil"
    /\ UNCHANGED <<wbVars, histVars>>
    /\ rerr' = derr
    /\ LET m == BufLen
           o == IF m = 0 /\ off # 0 THEN 0 ELSE off
       IN /\ off' = o
          /\ blen' = o + m + Len(dchunk)
          /\ dm' = o + m
    /\ dpc' = "d95"
    /\ UNCHANGED <<produced, dchunk, derr, arr, lock, cpc>>
    /\ UNCHANGED consVars

\* lines 92-93: if err != nil { r.err = err }
DrainSetErr ==
    /\ Running /\ dpc = "d92" /\ derr # "nil"
    /\ UNCHANGED <<wbVars, histVars>>
    /\ rerr' = derr
    /\ dpc' = "d97"
    /\ UNCHANGED <<produced, dchunk, derr, dm, arr, blen, off, lock, cpc>>
    /\ UNCHANGED consVars

\* line 95, first half of r.buf.Write: Buffer.grow(n).  An empty buffer with
\* a non-zero offset is truncated first; then the slice is extended by n and
\* the index to copy to is returned.
DrainGrow ==
    /\ Running /\ dpc = "d92" /\ derr = "nil"
    /\ UNCHANGED <<wbVars, histVars>>
    /\ LET m == BufLen
           o == IF m = 0 /\ off # 0 THEN 0 ELSE off
       IN /\ off' = o
          /\ blen' = o + m + Len(dchunk)
          /\ dm' = o + m
    /\ dpc' = "d95"
    /\ UNCHANGED <<produced, dchunk, derr, rerr, arr, lock, cpc>>
    /\ UNCHANGED consVars

\* line 95, second half of r.buf.Write: copy(b.buf[m:], p).  Slicing past the
\* length panics, and a panic in a goroutine ends the program.
DrainCopy ==
    /\ Running /\ dpc = "d95"
    /\ UNCHANGED <<wbVars, histVars>>
    /\ IF dm > blen
       THEN /\ dpc' = "panic"
            /\ arr' = arr
       ELSE /\ LET k == Min(Len(dchunk), blen - dm)
               IN arr' = [i \in 1..BufCap |->
                            IF dm < i /\ i <= dm + k THEN dchunk[i - dm]
                            ELSE arr[i]]
            /\ dpc' = "d97"
    /\ UNCHANGED <<produced, dchunk, derr, dm, rerr, blen, off, lock, cpc>>
    /\ UNCHANGED consVars

\* line 97: r.l.Lock()
DrainLock ==
    /\ Running /\ dpc = "d97" /\ lock = "none"
    /\ UNCHANGED <<wbVars, histVars>>
    /\ lock' = "drain"
    /\ dpc' = "d98"
    /\ UNCHANGED <<produced, dchunk, derr, dm, rerr, arr, blen, off, cpc>>
    /\ UNCHANGED consVars

\* line 98: r.wait.Signal() wakes the goroutine waiting on the condition, if
\* there is one; with no waiter the signal is not remembered.
DrainSignal ==
    /\ Running /\ dpc = "d98"
    /\ UNCHANGED <<wbVars, histVars>>
    /\ cpc' = IF cpc = "parked" THEN "woken" ELSE cpc
    /\ dpc' = "d99"
    /\ UNCHANGED <<produced, dchunk, derr, dm, rerr, arr, blen, off, lock>>
    /\ UNCHANGED consVars

\* line 99: r.l.Unlock()
DrainUnlock ==
    /\ Running /\ dpc = "d99"
    /\ UNCHANGED <<wbVars, histVars>>
    /\ lock' = "none"
    /\ dpc' = "d100"
    /\ UNCHANGED <<produced, dchunk, derr, dm, rerr, arr, blen, off, cpc>>
    /\ UNCHANGED consVars

\* Lines 100-102 without the break.
DrainBreak_Never(e) == "d91"

\* lines 100-102: where the loop of drain goes after Unlock, given the err
\* of this iteration's source read.
DrainBreak(e) == IF e # "nil" THEN "done" ELSE "d91"

\* lines 100-102: if err != nil { break }
DrainLoop ==
    /\ Running /\ dpc = "d100"
    /\ UNCHANGED <<wbVars, histVars>>
    /\ dpc' = DrainBreak(derr)
    /\ UNCHANGED <<produced, dchunk, derr, dm, rerr, arr, blen, off, lock, cpc>>
    /\ UNCHANGED consVars

\* Read going to the wait of lines 115-117 before it looks at the buffer.
ReadEntry_Wait == "c115"

\* lines 107-108: the loop of Read begins with r.buf.Read(p).
ReadEntry == "c108"

\* The consumer calls r.Read(p).
CallRead ==
    /\ Running /\ cpc = "idle"
    /\ UNCHANGED <<wbVars, histVars>>
    /\ \E l \in 0..MaxP :
        /\ plen' = l
        /\ zeroUsed' = (zeroUsed \/ l = 0)
    /\ cpc' = ReadEntry
    /\ cWaited' = FALSE
    /\ cLate' = IF BufLen = 0 \/ dpc = "d95" THEN "no"
                ELSE IF dpc \in {"d97", "d98"} /\ derr = "nil"
                     THEN "unsignalled" ELSE "signalled"
    /\ cBuf' = [i \in 1..BufLen |-> arr[off + i]]
    /\ cStart' = IF BufLen > 0 THEN "data"
                 ELSE IF rerr # "nil" THEN "term" ELSE "empty"
    /\ cAfterErr' = (lastRet.err \in Errors)
    /\ UNCHANGED <<cempty, got, lastRet>>
    /\ UNCHANGED <<rerr, arr, blen, off, lock>>
    /\ UNCHANGED drainVars

\* line 108, Buffer.Read's test: if b.off >= len(b.buf)
ReadTest ==
    /\ Running /\ cpc = "c108"
    /\ UNCHANGED <<wbVars, histVars>>
    /\ cempty' = (off >= blen)
    /\ cpc' = "c108b"
    /\ UNCHANGED <<plen, got, lastRet, cWaited, cStart, cAfterErr, cLate, cBuf,
                   zeroUsed>>
    /\ UNCHANGED <<rerr, arr, blen, off, lock>>
    /\ UNCHANGED drainVars

\* Line 110 returning r.err along with the bytes.
ReadDataRet_WithErr(n) == [n |-> n, err |-> rerr]

\* Value Read returns at line 110: return n, err with err of Buffer.Read,
\* which is nil whenever it copied.
ReadDataRet(n) == [n |-> n, err |-> "nil"]

\* Line 113 returning the err of Buffer.Read (io.EOF on an empty buffer).
ReadErrRet_BufErr == [n |-> 0, err |-> "EOF"]

\* Value Read returns at line 113: return 0, r.err
ReadErrRet == [n |-> 0, err |-> rerr]

\* line 108, rest of Buffer.Read, and lines 109-111.  On the empty branch
\* the buffer is truncated to zero and n = 0; otherwise n = copy(p,
\* b.buf[b.off:]) and b.off += n, and Read returns when n > 0.
ReadCopy ==
    /\ Running /\ cpc = "c108b"
    /\ UNCHANGED <<wbVars, histVars>>
    /\ IF cempty
       THEN /\ off' = 0
            /\ blen' = 0
            /\ cpc' = "c112"
            /\ UNCHANGED <<got, lastRet>>
       ELSE LET n == Min(plen, blen - off)
            IN /\ off' = off + n
               /\ blen' = blen
               /\ IF n > 0
                  THEN /\ got' = got \o [i \in 1..n |-> arr[off + i]]
                       /\ lastRet' = ReadDataRet(n)
                       /\ cpc' = "idle"
                  ELSE /\ cpc' = "c112"
                       /\ UNCHANGED <<got, lastRet>>
    /\ UNCHANGED <<plen, cempty, cWaited, cStart, cAfterErr, cLate, cBuf,
                   zeroUsed>>
    /\ UNCHANGED <<rerr, arr, lock>>
    /\ UNCHANGED drainVars

\* lines 112-114: if r.err != nil { return 0, r.err }
ReadCheckErr ==
    /\ Running /\ cpc = "c112"
    /\ UNCHANGED <<wbVars, histVars>>
    /\ IF rerr # "nil"
       THEN /\ lastRet' = ReadErrRet
            /\ cpc' = "idle"
       ELSE /\ cpc' = "c115"
            /\ UNCHANGED lastRet
    /\ UNCHANGED <<plen, cempty, got, cWaited, cStart, cAfterErr, cLate, cBuf,
                   zeroUsed>>
    /\ UNCHANGED <<rerr, arr, blen, off, lock>>
    /\ UNCHANGED drainVars

\* line 115: r.l.Lock()
ReadLock ==
    /\ Running /\ cpc = "c115" /\ lock = "none"
    /\ UNCHANGED <<wbVars, histVars>>
    /\ lock' = "consumer"
    /\ cpc' = "c116"
    /\ UNCHANGED consVars
    /\ UNCHANGED <<rerr, arr, blen, off>>
    /\ UNCHANGED drainVars

\* line 116, r.wait.Wait(): the caller is registered as a waiter and r.l is
\* released in one step; it then sleeps until a Signal.
ReadWait ==
    /\ Running /\ cpc = "c116"
    /\ UNCHANGED <<wbVars, histVars>>
    /\ lock' = "none"
    /\ cpc' = "parked"
    /\ cWaited' = TRUE
    /\ UNCHANGED <<plen, cempty, got, lastRet, cStart, cAfterErr, cLate, cBuf,
                   zeroUsed>>
    /\ UNCHANGED <<rerr, arr, blen, off>>
    /\ UNCHANGED drainVars

\* line 116, end of r.wait.Wait(): once signalled, take r.l again.
ReadWake ==
    /\ Running /\ cpc = "woken" /\ lock = "none"
    /\ UNCHANGED <<wbVars, histVars>>
    /\ lock' = "consumer"
    /\ cpc' = "c117"
    /\ UNCHANGED consVars
    /\ UNCHANGED <<rerr, arr, blen, off>>
    /\ UNCHANGED drainVars

\* line 117: r.l.Unlock(), then the loop goes back to line 108.
ReadUnlock ==
    /\ Running /\ cpc = "c117"
    /\ UNCHANGED <<wbVars, histVars>>
    /\ lock' = "none"
    /\ cpc' = "c108"
    /\ UNCHANGED consVars
    /\ UNCHANGED <<rerr, arr, blen, off>>
    /\ UNCHANGED drainVars

Next ==
    \/ SourceRead \/ DrainSetErr \/ DrainGrow \/ DrainCopy
    \/ DrainLock \/ DrainSignal \/ DrainUnlock \/ DrainLoop
    \/ CallRead \/ ReadTest \/ ReadCopy \/ ReadCheckErr
    \/ ReadLock \/ ReadWait \/ ReadWake \/ ReadUnlock

\* ------------------------------------------------- claims about bufReader

\* Positions of Read past the return of line 110: the test of r.err and the
\* wait of lines 115-117.
PastData == {"c112", "c115", "c116", "parked", "woken", "c117"}

\* Positions of Read in the wait of lines 115-117.
InWait == {"c115", "c116", "parked", "woken", "c117"}

\* C1 (as claimed): when every Read was given a non-empty p, a Read returns
\* the terminal error only after the Reads before it have returned all the
\* bytes the source produced.
C1_DeferredTermination ==
    (~zeroUsed /\ lastRet.err \in Errors) => got = produced

\* C2 (as claimed): once the source has returned its terminal error, every
\* Read gets released.  A consumer asleep in wait.Wait() after the drain
\* goroutine has ended is never signalled again, so the claim needs that no
\* such state is reachable.
C2_ReadReleased ==
    dpc = "done" => cpc # "parked"

\* C3 (as claimed): the bytes returned by Read so far are a prefix of the
\* bytes the source has produced so far.
C3_Fifo ==
    IsPrefix(got, produced)

\* C6 (as claimed): the drain goroutine is inside r.buf.Write only while it
\* holds r.l, the consumer is inside r.buf.Read or at the test of r.err only
\* while it holds r.l, and the two are never inside the buffer together.
C6_MutualExclusion ==
    /\ dpc = "d95" => lock = "drain"
    /\ cpc \in {"c108b", "c112"} => lock = "consumer"
    /\ ~(dpc = "d95" /\ cpc = "c108b")

\* What C8 says of a Read that began with bytes buffered: it does not get to
\* the test of r.err nor to the wait, and returns n with 0 < n <= len(p) and
\* a nil error.
ReadsData ==
    /\ ~cWaited
    /\ cpc \notin PastData
    /\ cpc = "idle" => /\ lastRet.n > 0
                       /\ lastRet.n <= plen
                       /\ lastRet.err = "nil"

\* C8 (as claimed): every Read that begins with at least one byte buffered
\* returns at once with n > 0 and a nil error, whatever len(p) is.
C8_DataReadAnyP ==
    cStart = "data" => ReadsData

\* C8 (amended): every Read given a non-empty p that begins with at least one
\* byte buffered returns without waiting, with 0 < n <= len(p), n at most the
\* length buffered at the copy, the offset advanced by n, and a nil error,
\* also when r.err is already set.
C8_DataRead ==
    [][ (cStart' = "data" /\ plen' > 0) =>
          /\ ReadsData'
          /\ (cpc = "c108b" /\ cpc' = "idle") =>
                /\ lastRet'.n <= blen - off
                /\ off' = off + lastRet'.n
                /\ Len(got') = Len(got) + lastRet'.n ]_vars

\* C8 witness: a Read with a non-empty p that began with bytes buffered and
\* with r.err already set has returned bytes.
C8_Witness ==
    /\ cStart = "data" /\ plen > 0 /\ cpc = "idle"
    /\ rerr \in Errors /\ dpc = "done"
    /\ lastRet.n > 0 /\ lastRet.err = "nil"

\* What C14 says of a Read that began with bytes buffered and no r.buf.Write
\* under way: it does not get to the wait, and it returns n > 0 bytes with a
\* nil error.
C14_Immediate ==
    /\ ~cWaited
    /\ cpc \notin PastData
    /\ cpc = "idle" => (lastRet.n > 0 /\ lastRet.err = "nil")

\* C14 (as claimed): a Read that begins after r.buf.Write has finished
\* appending, the bytes still buffered, returns them without entering the
\* wait, whatever len(p) is and whether or not the Signal for that Write came
\* before the Read began.
C14_LateReadAnyP ==
    cLate # "no" => C14_Immediate

\* C14 (amended): a Read given a non-empty p that begins after r.buf.Write
\* has finished appending, the bytes still buffered, never enters the wait and
\* returns with a nil error the first n of the bytes that were buffered when
\* it began, n > 0 and at least the smaller of len(p) and their number,
\* whether or not the Signal for that Write came before the Read began.
C14_LateRead ==
    [][ (cLate' # "no" /\ plen' > 0) =>
          /\ C14_Immediate'
          /\ (cpc = "c108b" /\ cpc' = "idle") =>
                /\ lastRet'.n >= Min(plen, Len(cBuf))
                /\ Len(got') = Len(got) + lastRet'.n
                /\ \A i \in 1..Min(lastRet'.n, Len(cBuf)) :
                      got'[Len(got) + i] = cBuf[i] ]_vars

\* C14 witness: a Read that began after the bytes were appended and before
\* the drain goroutine called Signal for them has returned them, the Signal
\* still not issued.
C14_Witness ==
    /\ cLate = "unsignalled" /\ plen > 0 /\ cpc = "idle"
    /\ dpc \in {"d97", "d98"}
    /\ lastRet.n > 0 /\ lastRet.err = "nil"
    /\ SubSeq(got, Len(got) - lastRet.n + 1, Len(got))
         = SubSeq(cBuf, 1, lastRet.n)

\* C16 (as claimed): a Read given a non-empty p enters wait.Wait() only in
\* a state where the buffer is empty and r.err is not set: the drain
\* goroutine cannot append or set r.err between Read's tests (lines 108 and
\* 112) and its wait (line 116).
C16_WaitPredicateAtomic ==
    [][ (cpc = "c116" /\ cpc' = "parked" /\ plen > 0) =>
            (BufLen = 0 /\ rerr = "nil") ]_vars

\* C17: r.err goes from unset to set at most once and never changes after;
\* the one drain goroutine has returned only if r.err is set, and it returns
\* on the iteration of the first source read that gave an error: after that
\* read it runs only lines 92-102 of that iteration, reads the source no
\* more, and once returned stays so.
C17_OneTerminalTransition ==
    [][ /\ rerr # "nil" => rerr' = rerr
        /\ dpc' = "done" => (rerr' # "nil" /\ rerr' = derr')
        /\ (dpc # "done" /\ dpc' = "done") => (dpc = "d100" /\ derr # "nil")
        /\ derr # "nil" =>
              /\ dpc' \in {"d92", "d97", "d98", "d99", "d100", "done"}
              /\ <<produced', dchunk', derr'>> = <<produced, dchunk, derr>>
        /\ dpc = "done" => dpc' = "done" ]_vars

\* C17 witness: the drain goroutine has returned after some source reads
\* that gave bytes and one that gave an error, and r.err is that error.
C17_Witness ==
    /\ dpc = "done" /\ rerr = "ErrClosed" /\ derr = "ErrClosed"
    /\ Len(produced) > 1

\* C18: once a source read has returned an error, nothing more is appended to
\* the buffer, so the bytes that came with the error are in no Read's
\* result; the buffer grows and its bytes change only while the last source
\* read returned a nil error.
C18_ErrorBytesDropped ==
    [][ /\ derr' # "nil" =>
              /\ arr' = arr /\ blen' <= blen
              /\ dpc' # "d95"
              /\ \A i \in DOMAIN dchunk', j \in DOMAIN got' :
                    got'[j] # dchunk'[i]
        /\ (arr' # arr \/ blen' > blen) => derr = "nil" ]_vars

\* C18 witness: the source returned bytes along with its error after bytes
\* returned with no error; the consumer has read the latter and then got the
\* error.
C18_Witness ==
    /\ derr \in Errors /\ Len(dchunk) > 0 /\ dpc = "done"
    /\ Len(produced) > 0 /\ got = produced
    /\ cpc = "idle" /\ lastRet = [n |-> 0, err |-> derr]

\* C20 (as claimed): a Read given an empty p returns only (0, r.err) with
\* r.err set, never (0, nil), and takes nothing out of the buffer: its
\* r.buf.Read(p) leaves the unread bytes as they were.
C20_ZeroLengthRead ==
    [][ plen = 0 =>
          /\ (cpc # "idle" /\ cpc' = "idle") =>
                (rerr' \in Errors /\ lastRet' = [n |-> 0, err |-> rerr'])
          /\ (cpc = "c108b" /\ cpc' # "c108b") =>
                (BufLen' = BufLen /\ got' = got) ]_vars

\* C9: every Read that begins with r.err set and the buffer empty returns
\* (0, r.err), r.err being the error the source returned, without getting to
\* the wait; and that state, once reached, stays.
C9_TerminalIdempotent ==
    [][ /\ cStart' = "term" =>
            /\ ~cWaited' /\ cpc' \notin InWait
            /\ rerr' \in Errors /\ rerr' = derr'
            /\ BufLen' = 0
            /\ cpc' = "idle" => lastRet' = [n |-> 0, err |-> rerr']
        /\ (rerr \in Errors /\ BufLen = 0) => (rerr' = rerr /\ BufLen' = 0)
      ]_vars

\* C9 witness: a second Read after the terminal error was already returned
\* once has returned it again.
C9_Witness ==
    /\ cStart = "term" /\ cpc = "idle" /\ cAfterErr
    /\ lastRet = [n |-> 0, err |-> "ErrClosed"]

\* ----------------------------------------------------- writeBroadcaster

InitWB ==
    /\ writers = <<>>
    /\ nextId = 1
    /\ lastOp = "new"
    /\ lastSink = "none"
    /\ lastP = <<>>
    /\ attempts = <<>>
    /\ closes = <<>>
    /\ wret = [n |-> 0, err |-> "none"]
    /\ cret = "none"
    /\ closedBefore = FALSE
    /\ failedIds = {}
    /\ failedSinks = {}
    /\ whist = <<>>
    /\ since = <<>>
    /\ recv = <<>>

Ids(seq) == {seq[i].id : i \in DOMAIN seq}

\* The data the Write calls att handed to element id, in the order of the
\* calls.
RECURSIVE Received(_, _)
Received(att, id) ==
    IF att = <<>> THEN <<>>
    ELSE (IF Head(att).id = id THEN <<Head(att).data>> ELSE <<>>)
         \o Received(Tail(att), id)

\* Results a sink's Write(p) can give: any count up to len(p), with or
\* without an error.
Outcomes(p) == [n : 0..Len(p), err : {"nil", "EIO"}]

DataSet == UNION {[1..k -> Bytes] : k \in 0..MaxData}

\* Line 152 treating only an error as a failure.
WriteFailed_ErrOnly(n, err, p) == err # "nil"

\* line 152: err != nil || n != len(p)
WriteFailed(n, err, p) == err # "nil" \/ n # Len(p)

\* Indices of ws, in order, that are not in drop.
RECURSIVE Keep(_, _, _)
Keep(ws, drop, i) ==
    IF i > Len(ws) THEN <<>>
    ELSE (IF i \in drop THEN <<>> ELSE <<ws[i]>>) \o Keep(ws, drop, i + 1)

\* Lines 159-161 removing only the first element of failed.
RemoveFailed_FirstOnly(ws, failed) ==
    IF failed = {} THEN ws
    ELSE Keep(ws, {CHOOSE i \in failed : \A j \in failed : i <= j}, 1)

\* lines 159-161: for _, e := range failed { w.writers.Remove(e) }
RemoveFailed(ws, failed) == Keep(ws, failed, 1)

\* Lines 150-156 removing the element inside the loop: list.Remove clears the
\* element's links, e.Next() is then nil and the pass ends at the first
\* failure.
Visited_RemoveInLoop(ws, res, p) ==
    {i \in 1..Len(ws) :
        \A j \in 1..(i - 1) : ~WriteFailed(res[j].n, res[j].err, p)}

\* Lines 150-156 returning after the first element.
Visited_FirstOnly(ws, res, p) == IF ws = <<>> THEN {} ELSE {1}

\* lines 150-156: the elements the loop calls writer.Write(p) on, res[i]
\* being what the i-th sink returns.
Visited(ws, res, p) == 1..Len(ws)

\* Line 162 returning the named results n, err as the last sink set them.
WriteRet_LastSink(p, att) ==
    IF att = <<>> THEN [n |-> 0, err |-> "nil"]
    ELSE [n |-> att[Len(att)].n, err |-> att[Len(att)].err]

\* line 162: return len(p), nil
WriteRet(p, att) == [n |-> Len(p), err |-> "nil"]

\* Line 135 adding the writer only when the list does not hold it yet.
PushBack_Unique(ws, id, s) ==
    IF \E i \in DOMAIN ws : ws[i].sink = s THEN ws
    ELSE Append(ws, [id |-> id, sink |-> s])

\* line 135: w.writers.PushBack(writer) makes a new element at the back.
PushBack(ws, id, s) == Append(ws, [id |-> id, sink |-> s])

\* lines 134-136: AddWriter(writer)
AddWriter ==
    /\ nextId <= MaxAdds
    /\ \E s \in Sinks :
        /\ writers' = PushBack(writers, nextId, s)
        /\ lastSink' = s
    /\ nextId' = nextId + 1
    /\ lastOp' = "AddWriter"
    /\ attempts' = <<>> /\ closes' = <<>>
    /\ closedBefore' = (closedBefore \/ lastOp = "Close")
    /\ UNCHANGED <<lastP, wret, cret, failedIds, failedSinks>>
    /\ UNCHANGED brVars

\* Lines 139-145 walking the list from the back.
Matched_Last(ws, s) ==
    LET hit == {i \in 1..Len(ws) : ws[i].sink = s}
    IN IF hit = {} THEN {} ELSE {CHOOSE i \in hit : \A j \in hit : i >= j}

\* lines 139-145: the element the loop removes: the first one, from the
\* front, whose value is writer; none when no element holds it.
Matched(ws, s) ==
    LET hit == {i \in 1..Len(ws) : ws[i].sink = s}
    IN IF hit = {} THEN {} ELSE {CHOOSE i \in hit : \A j \in hit : i <= j}

\* lines 138-146: remove the first element whose value is writer.
RemoveWriter ==
    /\ \E s \in Sinks :
        /\ writers' = Keep(writers, Matched(writers, s), 1)
        /\ lastSink' = s
    /\ lastOp' = "RemoveWriter"
    /\ attempts' = <<>> /\ closes' = <<>>
    /\ closedBefore' = (closedBefore \/ lastOp = "Close")
    /\ UNCHANGED <<nextId, lastP, wret, cret, failedIds, failedSinks>>
    /\ UNCHANGED brVars

\* lines 148-163: Write(p)
Write ==
    /\ \E p \in DataSet :
       \E res \in [1..Len(writers) -> Outcomes(p)] :
        LET vis == Visited(writers, res, p)
            att == [i \in 1..Cardinality(vis) |->
                      [id |-> writers[i].id, sink |-> writers[i].sink,
                       data |-> p, n |-> res[i].n, err |-> res[i].err]]
            failed == {i \in vis : WriteFailed(res[i].n, res[i].err, p)}
            bad == {i \in vis : res[i].err # "nil" \/ res[i].n # Len(p)}
        IN /\ lastP' = p
           /\ attempts' = att
           /\ writers' = RemoveFailed(writers, failed)
           /\ wret' = WriteRet(p, att)
           /\ failedIds' = failedIds \cup {writers[i].id : i \in bad}
           /\ failedSinks' = failedSinks \cup {writers[i].sink : i \in bad}
    /\ lastOp' = "Write"
    /\ closes' = <<>>
    /\ lastSink' = "none"
    /\ closedBefore' = (closedBefore \/ lastOp = "Close")
    /\ UNCHANGED <<nextId, cret>>
    /\ UNCHANGED brVars

\* Line 170 returning the error of the first sink whose Close failed.
CloseRet_FirstErr(cl) ==
    LET bad == {i \in DOMAIN cl : cl[i].err # "nil"}
    IN IF bad = {} THEN "nil"
       ELSE cl[CHOOSE i \in bad : \A j \in bad : i <= j].err

\* line 170: return nil, cl being the Close calls made on the sinks.
CloseRet(cl) == "nil"

\* Close emptying the list once the sinks are closed.
WritersAfterClose_Cleared(ws) == <<>>

\* lines 165-171: w.writers after Close; the loop only reads the list.
WritersAfterClose(ws) == ws

\* lines 165-171: Close() calls Close on every element's value, drops what it
\* returns, and returns nil.
Close ==
    /\ \E res \in [1..Len(writers) -> {"nil", "EIO"}] :
        LET cl == [i \in 1..Len(writers) |->
                     [id |-> writers[i].id, sink |-> writers[i].sink,
                      err |-> res[i]]]
        IN /\ closes' = cl
           /\ cret' = CloseRet(cl)
    /\ writers' = WritersAfterClose(writers)
    /\ lastOp' = "Close"
    /\ attempts' = <<>>
    /\ lastSink' = "none"
    /\ closedBefore' = (closedBefore \/ lastOp = "Close")
    /\ UNCHANGED <<nextId, lastP, wret, failedIds, failedSinks>>
    /\ UNCHANGED brVars

\* The four calls, with no record kept of what each element was handed.
AddWriterCall == AddWriter /\ UNCHANGED histVars
RemoveWriterCall == RemoveWriter /\ UNCHANGED histVars
WriteCall == Write /\ UNCHANGED histVars
CloseCall == Close /\ UNCHANGED histVars

NextWB == AddWriterCall \/ RemoveWriterCall \/ WriteCall \/ CloseCall

\* The four calls again, recording per element of the list the data that
\* Write handed to it.  An element that leaves the list leaves the record.
AddWriterRec ==
    /\ nextId <= MaxTracked
    /\ AddWriter
    /\ since' = [i \in Ids(writers') |-> IF i \in Ids(writers) THEN since[i]
                                         ELSE Len(whist)]
    /\ recv' = [i \in Ids(writers') |-> IF i \in Ids(writers) THEN recv[i]
                                        ELSE <<>>]
    /\ UNCHANGED whist

RemoveWriterRec ==
    /\ RemoveWriter
    /\ since' = [i \in Ids(writers') |-> since[i]]
    /\ recv' = [i \in Ids(writers') |-> recv[i]]
    /\ UNCHANGED whist

WriteRec ==
    /\ Len(whist) < MaxWrites
    /\ Write
    /\ whist' = Append(whist, lastP')
    /\ since' = [i \in Ids(writers') |-> since[i]]
    /\ recv' = [i \in Ids(writers') |-> recv[i] \o Received(attempts', i)]

CloseRec == Close /\ UNCHANGED histVars

NextRec == AddWriterRec \/ RemoveWriterRec \/ WriteRec \/ CloseRec

\* --------------------------------------------- claims about writeBroadcaster

\* The attempt att was a full write without error.
FullWrite(att) == att.err = "nil" /\ att.n = Len(att.data)

\* C4: after Write(d) the active set holds exactly the elements whose write
\* gave no error and the full count, in their old order, every other element
\* that was attempted being gone; and each Write attempts exactly the
\* elements that were in the active set when it was called, so the Write
\* after an eviction does not reach the evicted element.
C4_EvictionIsolation ==
    [][ lastOp' = "Write" =>
          /\ Ids(attempts') = Ids(writers)
          /\ writers' = SelectSeq(writers,
                LAMBDA e : \E i \in DOMAIN attempts' :
                              attempts'[i].id = e.id /\ FullWrite(attempts'[i]))
          /\ \A i \in DOMAIN attempts' :
                ~FullWrite(attempts'[i]) => attempts'[i].id \notin Ids(writers')
      ]_vars

\* C4 witness: sink A failed an earlier Write (by a short count or an error)
\* and the last Write reached sink B alone, which is the whole active set.
C4_Witness ==
    /\ lastOp = "Write"
    /\ failedSinks = {"A"}
    /\ Len(attempts) = 1 /\ attempts[1].sink = "B" /\ FullWrite(attempts[1])
    /\ Len(attempts[1].data) > 0
    /\ Ids(writers) = Ids(attempts)

\* C5: Write(d) calls Write(d) once on every element of the active set it
\* was called with, in list order, whatever the earlier elements returned.
C5_FanOut ==
    [][ lastOp' = "Write" =>
          /\ Len(attempts') = Len(writers)
          /\ \A i \in DOMAIN attempts' :
                /\ attempts'[i].id = writers[i].id
                /\ attempts'[i].sink = writers[i].sink
                /\ attempts'[i].data = lastP'
      ]_vars

\* C5 witness: a Write over three elements whose first element failed and
\* whose later elements were written in full.
C5_Witness ==
    /\ lastOp = "Write"
    /\ Len(attempts) = 3 /\ Len(lastP) > 0
    /\ ~FullWrite(attempts[1])
    /\ FullWrite(attempts[2]) /\ FullWrite(attempts[3])

\* C7 (as claimed): no Write and no Close reaches a sink that has failed a
\* write in an earlier call.
C7_SinkNeverRevisited ==
    [][ /\ \A i \in DOMAIN attempts' : attempts'[i].sink \notin failedSinks
        /\ \A i \in DOMAIN closes' : closes'[i].sink \notin failedSinks
      ]_vars

\* C7 (amended): no Write and no Close reaches a list element that has failed
\* a write in an earlier call; a failed element is never in the active set
\* again, and it stays failed.
C7_ElementNeverRevisited ==
    [][ /\ \A i \in DOMAIN attempts' : attempts'[i].id \notin failedIds
        /\ \A i \in DOMAIN closes' : closes'[i].id \notin failedIds
        /\ Ids(writers') \cap failedIds' = {}
        /\ failedIds \subseteq failedIds'
      ]_vars

\* C7 witness: an element of sink A has failed, another element of sink A is
\* active, and a Close has just closed it.
C7_Witness ==
    /\ lastOp = "Close"
    /\ "A" \in failedSinks /\ failedIds # {}
    /\ \E i \in DOMAIN closes : closes[i].sink = "A"

\* C10: Write(p) returns (len(p), nil), whatever the sinks returned and also
\* when no sink is registered.
C10_WriteReturn ==
    lastOp = "Write" => wret = [n |-> Len(lastP), err |-> "nil"]

\* C10 witness: a Write of non-empty data whose every sink failed, one by an
\* error and one by a short count, has returned.
C10_Witness ==
    /\ lastOp = "Write" /\ Len(lastP) > 0
    /\ Len(attempts) >= 2 /\ writers = <<>>
    /\ \E i \in DOMAIN attempts : attempts[i].err # "nil"
    /\ \E i \in DOMAIN attempts :
          attempts[i].err = "nil" /\ attempts[i].n < Len(lastP)
    /\ wret.n = Len(lastP)

\* Number of elements of seq that hold sink s.
CountSink(seq, s) == Cardinality({i \in DOMAIN seq : seq[i].sink = s})

\* C11: Close calls Close once on every element of the active set, in list
\* order (once per registration of a sink), and returns nil whatever the
\* sinks' Close calls returned.
C11_CloseFansOut ==
    [][ lastOp' = "Close" =>
          /\ Len(closes') = Len(writers)
          /\ \A i \in DOMAIN closes' :
                /\ closes'[i].id = writers[i].id
                /\ closes'[i].sink = writers[i].sink
          /\ cret' = "nil"
      ]_vars

\* C11 witness: a Close over three elements, holding both sinks, the first
\* of which failed to close, has returned nil.
C11_Witness ==
    /\ lastOp = "Close" /\ Len(closes) = 3
    /\ closes[1].err = "EIO"
    /\ {closes[i].sink : i \in DOMAIN closes} = Sinks
    /\ cret = "nil"

\* C12: RemoveWriter(s) takes out the first element holding s and nothing
\* else, the other elements (later elements holding s too) keeping their
\* order; when no element holds s the list is unchanged.
C12_RemoveFirstMatch ==
    [][ lastOp' = "RemoveWriter" =>
          LET hit == {i \in DOMAIN writers : writers[i].sink = lastSink'}
          IN IF hit = {} THEN writers' = writers
             ELSE \E k \in hit :
                     /\ \A j \in hit : k <= j
                     /\ writers' = SubSeq(writers, 1, k - 1)
                                   \o SubSeq(writers, k + 1, Len(writers))
      ]_vars

\* C12 witness: A was registered first, then B, then A again; RemoveWriter(A)
\* has left B and the later element of A, in that order.
C12_Witness ==
    /\ lastOp = "RemoveWriter" /\ lastSink = "A"
    /\ writers = <<[id |-> 2, sink |-> "B"], [id |-> 3, sink |-> "A"]>>

\* C15: AddWriter(s) appends a new element holding s at the back, whether or
\* not the list already holds s; a Write then calls Write on s once per
\* element holding s, and a Close calls Close on s once per element.
C15_NoUniqueness ==
    [][ /\ lastOp' = "AddWriter" =>
            /\ Len(writers') = Len(writers) + 1
            /\ SubSeq(writers', 1, Len(writers)) = writers
            /\ writers'[Len(writers')].sink = lastSink'
            /\ writers'[Len(writers')].id \notin Ids(writers)
        /\ lastOp' = "Write" =>
            \A s \in Sinks : CountSink(attempts', s) = CountSink(writers, s)
        /\ lastOp' = "Close" =>
            \A s \in Sinks : CountSink(closes', s) = CountSink(writers, s)
      ]_vars

\* C15 witness: sink A is registered twice and nothing else is; the last
\* Write wrote the data to A twice, in full, through two distinct elements.
C15_Witness ==
    /\ lastOp = "Write" /\ Len(lastP) > 0
    /\ Len(attempts) = 2
    /\ attempts[1].sink = "A" /\ attempts[2].sink = "A"
    /\ attempts[1].id # attempts[2].id
    /\ FullWrite(attempts[1]) /\ FullWrite(attempts[2])

\* C19: Close leaves the list as it was, and after a Close a Write still
\* calls Write on every element and a Close calls Close on every element.
C19_CloseKeepsWriters ==
    [][ /\ lastOp' = "Close" => writers' = writers
        /\ (closedBefore' /\ lastOp' = "Write") =>
              [i \in DOMAIN attempts' |-> attempts'[i].id]
                  = [i \in DOMAIN writers |-> writers[i].id]
        /\ (closedBefore' /\ lastOp' = "Close") =>
              [i \in DOMAIN closes' |-> closes'[i].id]
                  = [i \in DOMAIN writers |-> writers[i].id]
      ]_vars

\* C19 witness: a second Close, made after an earlier Close, has closed two
\* elements that are still in the list.
C19_Witness ==
    /\ closedBefore /\ lastOp = "Close"
    /\ Len(closes) = 2 /\ Len(writers) = 2

\* C13: an element that is in the list has been handed exactly the data of
\* the Write calls made since it was added, once each and in call order.
C13_PerSinkOrder ==
    \A i \in Ids(writers) :
        recv[i] = SubSeq(whist, since[i] + 1, Len(whist))

\* C13 witness: two Writes of differing data have been made; one element
\* was there for both and another was added between them.
C13_Witness ==
    /\ Len(whist) = 2 /\ whist[1] # whist[2]
    /\ \E i, j \in Ids(writers) :
          /\ since[i] = 0 /\ recv[i] = whist
          /\ since[j] = 1 /\ recv[j] = <<whist[2]>>

Init == InitBR /\ InitWB

\* bufReader: the drain goroutine and one consumer.
Spec == Init /\ [][Next]_vars

\* writeBroadcaster: one caller making any sequence of calls.
SpecWB == Init /\ [][NextWB]_vars

\* writeBroadcaster, with the record of what each element was handed.
SpecRec == Init /\ [][NextRec]_vars

====
